---- MODULE Spec2Model ----
(***************************************************************************)
(* A model of code-polish-pro (src/bin/index.js, the program that starts   *)
(* at line 341): the dependency catalog, the configuration merge engine,   *)
(* the per-project-type rule set, the ignore-list builder and the          *)
(* orchestrator setupProject, one action per statement of setupProject.    *)
(*                                                                         *)
(* JavaScript values are tagged pairs <<tag, payload>>:                    *)
(*   <<"str", s>>  <<"bool", b>>  <<"num", n>>  <<"null", 0>>              *)
(*   <<"undef", 0>>  <<"arr", sequence of values>>                         *)
(*   <<"obj", function from property names to values>>                     *)
(* A thrown TypeError is the pair Throw.                                   *)
(***************************************************************************)
EXTENDS Naturals, Sequences, FiniteSets, TLC

VARIABLES
  pc,                \* the statement of setupProject that runs next
  failure,           \* why the catch block of setupProject ran ("none" if it did not)
  exitCode,          \* the argument of process.exit (0 while the process runs or ends normally)
  projectType, useTypeScript, useHusky, useStrict, usePrettier,
  promptedTypeScript,\* the answer getProjectOptions returned for useTypeScript
  invalidAnswers,    \* how many times the running call of prompt has re-asked
  dirFiles,          \* what fs.readdir returned to isSvelteUsingTypeScript
  existingFile,      \* what checkExistingESLintConfig returned
  existingConfig,    \* the local existingConfig of setupProject
  uninstallLog,      \* the npm uninstall commands run so far
  dependencies,      \* the local dependencies of setupProject
  installDeps,       \* the argument of the running installDependencies call
  installIdx,        \* the position of its per-package loop
  installRet,        \* where the running installDependencies call returns to
  installLog,        \* the npm install commands run so far: [tier, deps, ok] for the
                     \* spawn and batch tiers, [tier, deps] for one package
  singleFailed,      \* whether a 'Failed to install ... Skipping' line was logged
  packageJson,       \* the local packageJson of setupProject
  mergeBase,         \* the argument baseConfig of the running mergeConfigs call (line 759)
  eslintConfig,      \* the local eslintConfig of generateConfig / setupProject
  packageJsonUpdates,\* the local packageJsonUpdates of setupProject
  written,           \* the names of the files written so far, in order
  files              \* the content of the files written so far

vars == <<pc, failure, exitCode, projectType, useTypeScript, useHusky, useStrict,
          usePrettier, promptedTypeScript, invalidAnswers, dirFiles, existingFile,
          existingConfig, uninstallLog, dependencies, installDeps, installIdx,
          installRet, installLog, singleFailed, packageJson, mergeBase, eslintConfig,
          packageJsonUpdates, written, files>>

-----------------------------------------------------------------------------
(* Bounds of the model *)

\* prompt re-asks for ever on invalid input; the model lets one call re-ask at
\* most this many times
MaxInvalidAnswers == 2

-----------------------------------------------------------------------------
(* JavaScript strings *)

\* String.prototype.includes
Includes(s, sub) ==
  \E i \in 1..(Len(s) + 1) :
    i + Len(sub) - 1 <= Len(s) /\ SubSeq(s, i, i + Len(sub) - 1) = sub

\* String.prototype.endsWith
EndsWith(s, suf) ==
  Len(suf) <= Len(s) /\ SubSeq(s, Len(s) - Len(suf) + 1, Len(s)) = suf

LowerChar(c) ==
  CASE c = "A" -> "a" [] c = "B" -> "b" [] c = "C" -> "c" [] c = "D" -> "d"
    [] c = "E" -> "e" [] c = "F" -> "f" [] c = "G" -> "g" [] c = "H" -> "h"
    [] c = "I" -> "i" [] c = "J" -> "j" [] c = "K" -> "k" [] c = "L" -> "l"
    [] c = "M" -> "m" [] c = "N" -> "n" [] c = "O" -> "o" [] c = "P" -> "p"
    [] c = "Q" -> "q" [] c = "R" -> "r" [] c = "S" -> "s" [] c = "T" -> "t"
    [] c = "U" -> "u" [] c = "V" -> "v" [] c = "W" -> "w" [] c = "X" -> "x"
    [] c = "Y" -> "y" [] c = "Z" -> "z" [] OTHER -> c

RECURSIVE ToLowerCase(_)
\* String.prototype.toLowerCase
ToLowerCase(s) ==
  IF Len(s) = 0 THEN ""
  ELSE LowerChar(SubSeq(s, 1, 1)) \o ToLowerCase(SubSeq(s, 2, Len(s)))

\* Array.prototype.includes on an array of strings
ArrIncludes(arr, x) == \E i \in 1..Len(arr) : arr[i] = x

-----------------------------------------------------------------------------
(* Configuration (lines 350-353) *)

MINIMUM_NODE_VERSION == <<14, 0, 0>>

PROJECT_TYPES == <<"nextjs", "react", "nodejs", "angular", "vue", "svelte">>

\* semver.gte on <<major, minor, patch>>
SemverGte(a, b) ==
  \/ a[1] > b[1]
  \/ a[1] = b[1] /\ a[2] > b[2]
  \/ a[1] = b[1] /\ a[2] = b[2] /\ a[3] >= b[3]

-----------------------------------------------------------------------------
(* Dependency management (lines 356-394) *)

commonDependencies ==
  << "eslint@^8.56.0",
     "prettier@^3.2.5",
     "eslint-config-prettier@^9.1.0",
     "eslint-plugin-prettier@^5.1.3" >>

typeSpecificDependencies ==
  [ nextjs  |-> << "eslint-config-next@latest" >>,
    react   |-> << "eslint-plugin-react@^7.34.1",
                   "eslint-plugin-react-hooks@^4.6.0",
                   "eslint-plugin-jsx-a11y@^6.8.0",
                   "eslint-config-react-app@^7.0.1",
                   "eslint-plugin-import@^2.29.1" >>,
    nodejs  |-> << "eslint-plugin-node@^11.1.0" >>,
    angular |-> << "@angular-eslint/eslint-plugin@^17.3.0",
                   "@angular-eslint/eslint-plugin-template@^17.3.0" >>,
    vue     |-> << "eslint-plugin-vue@^9.23.0" >>,
    svelte  |-> << "eslint-plugin-svelte@latest",
                   "svelte-eslint-parser@latest",
                   "prettier-plugin-svelte@latest",
                   "eslint-config-prettier@latest",
                   "svelte-check@latest" >> ]

typescriptDependencies ==
  << "@typescript-eslint/parser@^7.1.0",
     "@typescript-eslint/eslint-plugin@^7.1.0" >>

huskyDependencies == << "husky@^9.0.11", "lint-staged@^15.2.2" >>

NotPrettier(dep) == ~Includes(dep, "prettier")

\* String.prototype.startsWith
StartsWith(s, prefix) == Len(prefix) <= Len(s) /\ SubSeq(s, 1, Len(prefix)) = prefix

NotPrettierPackage(dep) == ~StartsWith(dep, "prettier")

\* a variant that removes only the packages whose name starts with 'prettier'
getProjectDependencies_FilterByPrefix(type, ts, prettier) ==
  LET deps1 == commonDependencies \o typeSpecificDependencies[type]
      deps2 == IF ts /\ type # "nextjs" THEN deps1 \o typescriptDependencies ELSE deps1
  IN  IF ~prettier THEN SelectSeq(deps2, NotPrettierPackage) ELSE deps2

\* a variant that adds the TypeScript packages for nextjs too
getProjectDependencies_TypeScriptForNextjs(type, ts, prettier) ==
  LET deps1 == commonDependencies \o typeSpecificDependencies[type]
      deps2 == IF ts THEN deps1 \o typescriptDependencies ELSE deps1
  IN  IF ~prettier THEN SelectSeq(deps2, NotPrettier) ELSE deps2

getProjectDependencies(type, ts, prettier) ==
  LET deps1 == commonDependencies \o typeSpecificDependencies[type]
      deps2 == IF ts /\ type # "nextjs" THEN deps1 \o typescriptDependencies ELSE deps1
  IN  IF ~prettier THEN SelectSeq(deps2, NotPrettier) ELSE deps2

-----------------------------------------------------------------------------
(* JavaScript values *)

S(s) == <<"str", s>>
B(b) == <<"bool", b>>
N(n) == <<"num", n>>
A(q) == <<"arr", q>>
O(f) == <<"obj", f>>
Null == <<"null", 0>>
Undefined == <<"undef", 0>>
Throw == <<"throw", "TypeError">>

EmptyObject == [k \in {} |-> Undefined]

Tag(v) == v[1]
IsArray(v) == Tag(v) = "arr"
\* typeof v === 'object' && v !== null, for a v that is no array
IsObject(v) == Tag(v) = "obj"
IsThrow(v) == Tag(v) = "throw"

\* the truthiness the || operator tests
Truthy(v) ==
  CASE Tag(v) = "bool" -> v[2]
    [] Tag(v) = "str" -> v[2] # ""
    [] Tag(v) = "num" -> v[2] # 0
    [] Tag(v) \in {"null", "undef"} -> FALSE
    [] OTHER -> TRUE

\* obj[k], undefined when obj has no property k
Get(f, k) == IF k \in DOMAIN f THEN f[k] ELSE Undefined

\* obj[k] = v
Put(f, k, v) == [x \in DOMAIN f \cup {k} |-> IF x = k THEN v ELSE f[x]]

\* { ...f, ...g }
Assign(f, g) == [x \in DOMAIN f \cup DOMAIN g |-> IF x \in DOMAIN g THEN g[x] ELSE f[x]]

\* a || b
OrElse(a, b) == IF Truthy(a) THEN a ELSE b

Chars(s) == [i \in 1..Len(s) |-> S(SubSeq(s, i, i))]

\* [...v] as an array value: the elements of an array, the characters of a
\* string, a TypeError for a value that is not iterable
SpreadArray(v) ==
  CASE Tag(v) = "arr" -> v
    [] Tag(v) = "str" -> A(Chars(v[2]))
    [] OTHER -> Throw

IndexKeys(q) == [k \in {ToString(i - 1) : i \in 1..Len(q)} |->
                   q[CHOOSE i \in 1..Len(q) : ToString(i - 1) = k]]

\* { ...v }: the own enumerable properties of v
SpreadObject(v) ==
  CASE Tag(v) = "obj" -> v[2]
    [] Tag(v) = "arr" -> IndexKeys(v[2])
    [] Tag(v) = "str" -> IndexKeys(Chars(v[2]))
    [] OTHER -> EmptyObject

IsPrimitive(v) == Tag(v) \in {"str", "bool", "num", "null", "undef"}

\* a variant that keeps only the elements that occur once
SetOf_OnlyUnrepeated(q) ==
  SelectSeq(q, LAMBDA v : Cardinality({ i \in 1..Len(q) : q[i] = v }) = 1)

\* [...new Set(q)]: the first occurrence of every primitive is kept; objects are
\* compared by reference, and no two elements of these documents are one object
RECURSIVE SetOf(_)
SetOf(q) ==
  IF Len(q) = 0 THEN <<>>
  ELSE LET front == SubSeq(q, 1, Len(q) - 1)
           last == q[Len(q)]
       IN  IF IsPrimitive(last) /\ \E i \in 1..Len(front) : front[i] = last
           THEN SetOf(front)
           ELSE Append(SetOf(front), last)

Strs(q) == A([i \in 1..Len(q) |-> S(q[i])])

-----------------------------------------------------------------------------
(* ESLint configuration generator (lines 734-952) *)

RECURSIVE mergeConfigs(_, _)
\* baseConfig and existingConfig are the property maps of two objects; the
\* result is a value: an object, or Throw when a spread of line 798 throws
\* a variant that puts the incoming elements first
MergeEntry_IncomingFirst(merged, key, value) ==
  IF IsArray(value)
  THEN LET cur == SpreadArray(OrElse(Get(merged, key), A(<<>>)))
       IN  IF IsThrow(cur) THEN Throw ELSE A(SetOf(value[2] \o cur[2]))
  ELSE IF IsObject(value)
  THEN mergeConfigs(SpreadObject(OrElse(Get(merged, key), O(EmptyObject))), value[2])
  ELSE value

MergeEntry(merged, key, value) ==
  IF IsArray(value)
  THEN LET cur == SpreadArray(OrElse(Get(merged, key), A(<<>>)))
       IN  IF IsThrow(cur) THEN Throw ELSE A(SetOf(cur[2] \o value[2]))
  ELSE IF IsObject(value)
  THEN mergeConfigs(SpreadObject(OrElse(Get(merged, key), O(EmptyObject))), value[2])
  ELSE value

mergeConfigs(baseConfig, existing) ==
  IF \E key \in DOMAIN existing : IsThrow(MergeEntry(baseConfig, key, existing[key]))
  THEN Throw
  ELSE O([key \in DOMAIN baseConfig \cup DOMAIN existing |->
            IF key \in DOMAIN existing
            THEN MergeEntry(baseConfig, key, existing[key])
            ELSE baseConfig[key]])

\* lines 736-756
baseEslintConfig(type, strict, pkg) ==
  [ root |-> B(TRUE),
    env |-> O([browser |-> B(TRUE), es2022 |-> B(TRUE), node |-> B(TRUE)]),
    parserOptions |-> O([
      ecmaVersion |-> S("latest"),
      sourceType |-> IF Get(pkg, "type") = S("module") THEN S("module")
                     ELSE IF type \in {"react", "nextjs", "svelte"} THEN S("module")
                     ELSE S("script") ]),
    rules |-> O(( "no-console" :> (IF strict THEN S("error") ELSE S("warn")) )
             @@ ( "no-debugger" :> S("error") )
             @@ ( "no-unused-vars" :> S("error") )) ]

\* config.<key> = [...(config.<key> || []), ...items]
AppendTo(config, key, items) ==
  LET cur == SpreadArray(OrElse(Get(config, key), A(<<>>)))
  IN  IF IsThrow(cur) THEN Throw ELSE O(Put(config, key, A(cur[2] \o items[2])))

\* config.rules = { ...config.rules, ...rules }
AddRules(config, rules) ==
  Put(config, "rules", O(Assign(SpreadObject(Get(config, "rules")), rules)))

\* runs step on the object c, or passes a thrown error on
Then(c, step(_)) == IF IsThrow(c) THEN Throw ELSE step(c[2])

configureReact(config, ts) ==
  LET c1 == AppendTo(config, "extends",
              Strs(<< "plugin:react/recommended", "plugin:react/jsx-runtime",
                      "plugin:react-hooks/recommended", "plugin:jsx-a11y/recommended",
                      "plugin:import/errors", "plugin:import/warnings" >>))
      Plugins(c) == AppendTo(c, "plugins", Strs(<<"react", "react-hooks", "jsx-a11y", "import">>))
      Rest(c) ==
        LET settings == O(Assign(SpreadObject(Get(c, "settings")),
                           ( "react" :> O([version |-> S("detect")]) )
                        @@ ( "import/resolver" :>
                               O([node |-> O([extensions |-> Strs(<<".js", ".jsx", ".ts", ".tsx">>)])]) )))
            c3 == AddRules(Put(c, "settings", settings),
                     ( "react/prop-types" :> (IF ts THEN S("off") ELSE S("error")) )
                  @@ ( "react/jsx-uses-react" :> S("error") )
                  @@ ( "react/jsx-uses-vars" :> S("error") )
                  @@ ( "react-hooks/rules-of-hooks" :> S("error") )
                  @@ ( "react-hooks/exhaustive-deps" :> S("warn") )
                  @@ ( "import/no-unresolved" :> S("error") )
                  @@ ( "import/named" :> S("error") )
                  @@ ( "import/default" :> S("error") )
                  @@ ( "import/namespace" :> S("error") ))
            po == Get(c3, "parserOptions")
        IN  IF ~ts THEN O(c3)
            \* line 843: a property set on an object; a TypeError on null or
            \* undefined; nothing that is serialized on any other value
            ELSE IF IsObject(po)
            THEN O(Put(c3, "parserOptions", O(Put(po[2], "ecmaFeatures", O([jsx |-> B(TRUE)])))))
            ELSE IF Tag(po) \in {"null", "undef"} THEN Throw
            ELSE O(c3)
  IN  Then(Then(c1, Plugins), Rest)

configureNextjs(config) == AppendTo(config, "extends", Strs(<<"next/core-web-vitals">>))

configureNodejs(config) ==
  LET Plugins(c) == AppendTo(c, "plugins", Strs(<<"node">>))
      Rules(c) == O(AddRules(c,
           ( "node/exports-style" :> Strs(<<"error", "module.exports">>) )
        @@ ( "node/file-extension-in-import" :> Strs(<<"error", "always">>) )
        @@ ( "node/prefer-global/buffer" :> Strs(<<"error", "always">>) )
        @@ ( "node/prefer-global/console" :> Strs(<<"error", "always">>) )
        @@ ( "node/prefer-global/process" :> Strs(<<"error", "always">>) )
        @@ ( "node/prefer-global/url-search-params" :> Strs(<<"error", "always">>) )
        @@ ( "node/prefer-global/url" :> Strs(<<"error", "always">>) )
        @@ ( "node/prefer-promises/dns" :> S("error") )
        @@ ( "node/prefer-promises/fs" :> S("error") )))
  IN  Then(Then(AppendTo(config, "extends", Strs(<<"plugin:node/recommended">>)), Plugins), Rules)

\* ts is the JavaScript value of the parameter useTypeScript
configureSvelte(config, ts) ==
  LET tsExtends == IF Truthy(ts) THEN <<"plugin:@typescript-eslint/recommended">> ELSE <<>>
      tsPlugins == IF Truthy(ts) THEN <<"@typescript-eslint">> ELSE <<>>
      c1 == Put(config, "extends",
                Strs(<<"eslint:recommended", "plugin:svelte/recommended">> \o tsExtends))
      c2 == Put(c1, "parser", S("svelte-eslint-parser"))
      c3 == Put(c2, "plugins", Strs(<<"svelte">> \o tsPlugins))
      c4 == Put(c3, "overrides", A(<< O([
                files |-> Strs(<<"*.svelte">>),
                parser |-> S("svelte-eslint-parser"),
                parserOptions |-> O([parser |-> IF Truthy(ts) THEN S("@typescript-eslint/parser")
                                                ELSE S("espree")]) ]) >>))
      c5 == IF Truthy(ts)
            THEN Put(c4, "parserOptions",
                     O(Assign(SpreadObject(Get(c4, "parserOptions")),
                              [project |-> S("./tsconfig.json"),
                               extraFileExtensions |-> Strs(<<".svelte">>)])))
            ELSE c4
  IN  O(AddRules(c5,
           ( "svelte/no-unused-vars" :> S("error") )
        @@ ( "no-unused-vars" :> S("off") )
        @@ ( "@typescript-eslint/no-unused-vars" :>
               (IF Truthy(ts)
                THEN A(<< S("error"),
                          O([varsIgnorePattern |-> S("^_"), argsIgnorePattern |-> S("^_")]) >>)
                ELSE S("off")) )))

configureVue(config) ==
  LET Plugins(c) == AppendTo(c, "plugins", Strs(<<"vue">>))
      Parser(c) == O(Put(c, "parser", S("vue-eslint-parser")))
  IN  Then(Then(AppendTo(config, "extends", Strs(<<"plugin:vue/vue3-recommended">>)), Plugins), Parser)

configureAngular(config) ==
  LET Plugins(c) == AppendTo(c, "plugins", Strs(<<"@angular-eslint">>))
  IN  Then(AppendTo(config, "extends",
                    Strs(<< "plugin:@angular-eslint/recommended",
                            "plugin:@angular-eslint/template/process-inline-templates" >>)),
           Plugins)

configureTypeScript(config) ==
  LET Extends(c) == AppendTo(c, "extends", Strs(<<"plugin:@typescript-eslint/recommended">>))
      Rules(c) == O(AddRules(c,
           ( "@typescript-eslint/explicit-function-return-type" :> S("off") )
        @@ ( "@typescript-eslint/explicit-module-boundary-types" :> S("off") )
        @@ ( "@typescript-eslint/no-explicit-any" :> S("warn") )))
  IN  Then(Then(AppendTo(Put(config, "parser", S("@typescript-eslint/parser")),
                         "plugins", Strs(<<"@typescript-eslint">>)),
                Extends),
           Rules)

\* a variant that puts the formatter's entry first
configurePrettier_Prepends(config) ==
  LET cur == SpreadArray(OrElse(Get(config, "extends"), A(<<>>)))
  IN  IF IsThrow(cur) THEN Throw
      ELSE O(AddRules(Put(config, "extends",
                          A(<<S("plugin:prettier/recommended")>> \o cur[2])),
                      ( "prettier/prettier" :> S("error") )))

configurePrettier(config) ==
  LET Rules(c) == O(AddRules(c, ( "prettier/prettier" :> S("error") )))
  IN  Then(AppendTo(config, "extends", Strs(<<"plugin:prettier/recommended">>)), Rules)

\* line 759
mergeStep(type, strict, pkg, existing) ==
  mergeConfigs(baseEslintConfig(type, strict, pkg), existing)

\* the switch of lines 762-781; the svelte case passes no second argument
typeStep(config, type, ts) ==
  CASE type = "react" -> configureReact(config, ts)
    [] type = "nextjs" -> configureNextjs(config)
    [] type = "nodejs" -> configureNodejs(config)
    [] type = "svelte" -> configureSvelte(config, Undefined)
    [] type = "vue" -> configureVue(config)
    [] type = "angular" -> configureAngular(config)
    [] OTHER -> O(config)

\* a variant that runs the TypeScript step for nextjs too
typeScriptStep_ForNextjs(config, type, ts) ==
  IF ts THEN configureTypeScript(config) ELSE O(config)

\* lines 783-785
typeScriptStep(config, type, ts) ==
  IF ts /\ type # "nextjs" THEN configureTypeScript(config) ELSE O(config)

\* lines 787-789
prettierStep(config, prettier) ==
  IF prettier THEN configurePrettier(config) ELSE O(config)

\* the value generateConfig returns, or Throw
generateConfig(type, ts, strict, prettier, pkg, existing) ==
  LET Type(c) == typeStep(c, type, ts)
      TypeScript(c) == typeScriptStep(c, type, ts)
      Prettier(c) == prettierStep(c, prettier)
  IN  Then(Then(Then(mergeStep(type, strict, pkg, existing), Type), TypeScript), Prettier)

-----------------------------------------------------------------------------
(* Prettier configuration generator (lines 653-675) *)

prettierGenerateConfig(type) ==
  LET baseConfig == [ singleQuote |-> B(TRUE), trailingComma |-> S("es5"),
                      printWidth |-> N(100), tabWidth |-> N(2), semi |-> B(TRUE) ]
  IN  IF type = "svelte"
      THEN O(Assign(baseConfig,
                    [ plugins |-> Strs(<<"prettier-plugin-svelte">>),
                      svelteStrictMode |-> B(FALSE),
                      svelteAllowShorthand |-> B(TRUE),
                      svelteIndentScriptAndStyle |-> B(TRUE) ]))
      ELSE O(baseConfig)

-----------------------------------------------------------------------------
(* File system utilities (lines 489-579) *)

eslintConfigFiles ==
  <<".eslintrc", ".eslintrc.js", ".eslintrc.cjs", ".eslintrc.yaml", ".eslintrc.yml",
    ".eslintrc.json">>

\* checkExistingESLintConfig: the first candidate that fs.access finds, or null
firstExisting(present) ==
  IF \E i \in 1..Len(eslintConfigFiles) : eslintConfigFiles[i] \in present
  THEN S(eslintConfigFiles[CHOOSE i \in 1..Len(eslintConfigFiles) :
            /\ eslintConfigFiles[i] \in present
            /\ \A j \in 1..(i - 1) : eslintConfigFiles[j] \notin present])
  ELSE Null

commonIgnores == <<"node_modules", "dist", "build", "coverage", "*.min.js", "*.d.ts">>

typeSpecificIgnores ==
  [ nextjs |-> <<"next.config.js", ".next">>,
    react  |-> <<"react-app-env.d.ts">>,
    nodejs |-> <<>>,
    svelte |-> <<"rollup.config.js", "svelte.config.js", ".svelte-kit", "package", "build",
                 ".env", ".env.*", "!.env.example", "vite.config.js">> ]

\* a variant whose table has additions for nodejs
eslintIgnores_NodejsAdditions(type) ==
  commonIgnores \o (IF type = "nodejs" THEN <<".env">>
                    ELSE IF type \in DOMAIN typeSpecificIgnores THEN typeSpecificIgnores[type]
                    ELSE <<>>)

\* the lines createEslintIgnore joins and writes
eslintIgnores(type) ==
  commonIgnores \o (IF type \in DOMAIN typeSpecificIgnores THEN typeSpecificIgnores[type] ELSE <<>>)

prettierIgnores ==
  <<"node_modules", "dist", "build", "coverage", "*.min.js", "*.d.ts", ".next",
    "package-lock.json", "yarn.lock">>

\* the object createSvelteTsConfig writes (lines 696-718)
svelteTsConfig ==
  O([ extends |-> S("@tsconfig/svelte/tsconfig.json"),
      compilerOptions |-> O(
           [ moduleResolution |-> S("node"), target |-> S("esnext"), module |-> S("esnext"),
             importsNotUsedAsValues |-> S("error"), isolatedModules |-> B(TRUE),
             sourceMap |-> B(TRUE), esModuleInterop |-> B(TRUE), skipLibCheck |-> B(TRUE),
             forceConsistentCasingInFileNames |-> B(TRUE), allowJs |-> B(TRUE),
             checkJs |-> B(TRUE), baseUrl |-> S(".") ]
        @@ ( "paths" :> O(( "$lib" :> Strs(<<"src/lib">>) ) @@ ( "$lib/*" :> Strs(<<"src/lib/*">>) )) )),
      include |-> Strs(<<"src/**/*.d.ts", "src/**/*.ts", "src/**/*.js", "src/**/*.svelte">>),
      exclude |-> Strs(<<"node_modules/*", "__sapper__/*", "public/*">>) ])

\* a variant that does not look for component files
svelteUsesTypeScript_NoComponents(listing) ==
  IF IsThrow(listing) THEN FALSE
  ELSE \E i \in 1..Len(listing) :
         \/ listing[i] = "tsconfig.json"
         \/ EndsWith(listing[i], ".ts")

\* isSvelteUsingTypeScript on the listing fs.readdir returned (lines 723-731);
\* listing is Throw when readdir rejects
svelteUsesTypeScript(listing) ==
  IF IsThrow(listing) THEN FALSE
  ELSE \E i \in 1..Len(listing) :
         \/ listing[i] = "tsconfig.json"
         \/ EndsWith(listing[i], ".ts")
         \/ EndsWith(listing[i], ".svelte")

\* removeConflictingDependencies' table (lines 615-622)
conflictingDependencies ==
  [ nextjs |-> <<"@next/eslint-plugin-next">>, react |-> <<>>, nodejs |-> <<>>,
    angular |-> <<>>, vue |-> <<>>, svelte |-> <<>> ]

\* a?.[k] || fallback, for the scripts of lines 1017-1033
ScriptOr(pkg, name, fallback) ==
  LET scripts == Get(pkg, "scripts")
      cur == IF Tag(scripts) \in {"null", "undef"} THEN Undefined
             ELSE Get(SpreadObject(scripts), name)
  IN  OrElse(cur, S(fallback))

\* lines 1014-1020
baseUpdates(pkg) ==
  [ scripts |-> O(Assign(SpreadObject(OrElse(Get(pkg, "scripts"), O(EmptyObject))),
                     ( "lint" :> ScriptOr(pkg, "lint", "eslint .") )
                  @@ ( "lint:fix" :> ScriptOr(pkg, "lint:fix", "eslint . --fix") ))) ]

\* lines 1022-1030
svelteUpdates(updates, type) ==
  IF type = "svelte"
  THEN Put(updates, "scripts", O(Assign(updates["scripts"][2],
             ( "lint" :> S("eslint --ignore-path .gitignore .") )
          @@ ( "lint:fix" :> S("eslint --ignore-path .gitignore --fix .") )
          @@ ( "check" :> S("svelte-check --tsconfig ./tsconfig.json") )
          @@ ( "format" :> S("prettier --write --plugin prettier-plugin-svelte .") ))))
  ELSE updates

\* lines 1032-1034
prettierUpdates(updates, pkg, prettier) ==
  IF prettier
  THEN Put(updates, "scripts",
           O(Put(updates["scripts"][2], "format", ScriptOr(pkg, "format", "prettier --write ."))))
  ELSE updates

\* the lines of the hook huskySetup.setup writes (lines 683-687)
preCommitContent ==
  Strs(<< "#!/usr/bin/env sh", ". \"$(dirname -- \"$0\")/_/husky.sh\"", "", "npx lint-staged", "" >>)

\* lines 1037-1040
huskyUpdates(updates) ==
  Put(updates, "lint-staged",
      O(( "*.{js,jsx,ts,tsx,svelte}" :> Strs(<<"eslint --fix">>) )
     @@ ( "*.{json,md,css,html,svelte}" :> Strs(<<"prettier --write">>) )))

-----------------------------------------------------------------------------
(* What the environment can answer *)

NodeVersions == { <<12, 22, 12>>, <<14, 0, 0>>, <<20, 11, 1>> }

TypeAnswers == { "nextjs", "react", "nodejs", "angular", "vue", "svelte", "React", "django" }

YesNoAnswers == { "y", "Y", "n", "" }

DirListings ==
  { <<"package.json", "ts", "notes.svelte.txt">>,
    <<"main.js", "tsconfig.json">>,
    <<"index.ts">>,
    <<"package.json", "App.svelte">>,
    Throw }

PresentConfigFiles == { {}, {".eslintrc.json", ".eslintrc.js"} }

ExistingConfigs ==
  { [ extends |-> Strs(<<"airbnb">>), rules |-> O(( "no-console" :> S("off") )) ],
    [ extends |-> Strs(<<"plugin:node/recommended", "airbnb">>) ],
    [ env |-> Strs(<<"browser">>) ],
    [ parserOptions |-> O([ ecmaVersion |-> A(<<N(2020)>>) ]) ],
    [ parserOptions |-> O([ ecmaVersion |-> O([ version |-> N(2020) ]) ]) ],
    [ root |-> A(<<B(TRUE)>>) ],
    [ rules |-> O(( "no-console" :> A(<<S("warn"), O([allow |-> Strs(<<"error">>)])>>) )) ] }

PackageJsons ==
  { [ name |-> S("app"), scripts |-> O([ test |-> S("jest") ]) ],
    [ name |-> S("app"), type |-> S("module"),
      scripts |-> O([ lint |-> S("standard"), format |-> S("dprint fmt") ]) ] }

-----------------------------------------------------------------------------
(* The orchestrator setupProject (lines 955-1065) *)

exitVars == <<failure, exitCode>>
optionVars == <<projectType, promptedTypeScript, useTypeScript, useHusky, useStrict, usePrettier>>
envVars == <<invalidAnswers, dirFiles, existingFile, existingConfig>>
npmVars == <<uninstallLog, installDeps, installIdx, installRet, installLog, singleFailed>>
genVars == <<dependencies, packageJson, mergeBase, eslintConfig, packageJsonUpdates>>
fsVars == <<written, files>>

Init ==
  /\ pc = "checkNodeVersion"
  /\ failure = "none"
  /\ exitCode = 0
  /\ projectType = ""
  /\ promptedTypeScript = FALSE
  /\ useTypeScript = FALSE
  /\ useHusky = FALSE
  /\ useStrict = FALSE
  /\ usePrettier = FALSE
  /\ invalidAnswers = 0
  /\ dirFiles = <<>>
  /\ existingFile = Null
  /\ existingConfig = EmptyObject
  /\ uninstallLog = <<>>
  /\ dependencies = <<>>
  /\ installDeps = <<>>
  /\ installIdx = 0
  /\ installRet = ""
  /\ installLog = <<>>
  /\ singleFailed = FALSE
  /\ packageJson = EmptyObject
  /\ mergeBase = EmptyObject
  /\ eslintConfig = Undefined
  /\ packageJsonUpdates = EmptyObject
  /\ written = <<>>
  /\ files = EmptyObject

\* the catch block of lines 1058-1064
Fail(reason) ==
  /\ pc' = "exited"
  /\ failure' = reason
  /\ exitCode' = 1

\* fileSystem.writeJsonFile / writeFile
WriteFile(name, content) ==
  /\ written' = Append(written, name)
  /\ files' = Put(files, name, content)

\* line 957
CheckNodeVersion ==
  /\ pc = "checkNodeVersion"
  /\ \E version \in NodeVersions :
       IF SemverGte(version, MINIMUM_NODE_VERSION)
       THEN pc' = "checkGitRepository" /\ UNCHANGED exitVars
       ELSE Fail("nodeVersion")
  /\ UNCHANGED <<optionVars, envVars, npmVars, genVars, fsVars>>

\* line 958
CheckGitRepository ==
  /\ pc = "checkGitRepository"
  /\ \E gitDirectory \in BOOLEAN :
       IF gitDirectory
       THEN pc' = "promptProjectType" /\ UNCHANGED exitVars
       ELSE Fail("gitRepository")
  /\ UNCHANGED <<optionVars, envVars, npmVars, genVars, fsVars>>

\* lines 475-478, with the loop of prompt (lines 465-469)
PromptProjectType ==
  /\ pc = "promptProjectType"
  /\ \E answer \in TypeAnswers :
       IF ArrIncludes(PROJECT_TYPES, ToLowerCase(answer))
       THEN /\ projectType' = answer
            /\ pc' = "promptTypeScript"
            /\ invalidAnswers' = 0
       ELSE /\ invalidAnswers < MaxInvalidAnswers
            /\ invalidAnswers' = invalidAnswers + 1
            /\ UNCHANGED <<projectType, pc>>
  /\ UNCHANGED <<exitVars, promptedTypeScript, useTypeScript, useHusky, useStrict, usePrettier,
                 dirFiles, existingFile, existingConfig, npmVars, genVars, fsVars>>

\* line 479
PromptTypeScript ==
  /\ pc = "promptTypeScript"
  /\ \E answer \in YesNoAnswers :
       /\ promptedTypeScript' = (ToLowerCase(answer) = "y")
       /\ useTypeScript' = (ToLowerCase(answer) = "y")
  /\ pc' = "promptHusky"
  /\ UNCHANGED <<exitVars, projectType, useHusky, useStrict, usePrettier, envVars, npmVars,
                 genVars, fsVars>>

\* line 480
PromptHusky ==
  /\ pc = "promptHusky"
  /\ \E answer \in YesNoAnswers : useHusky' = (ToLowerCase(answer) = "y")
  /\ pc' = "promptStrict"
  /\ UNCHANGED <<exitVars, projectType, promptedTypeScript, useTypeScript, useStrict,
                 usePrettier, envVars, npmVars, genVars, fsVars>>

\* line 481
PromptStrict ==
  /\ pc = "promptStrict"
  /\ \E answer \in YesNoAnswers : useStrict' = (ToLowerCase(answer) = "y")
  /\ pc' = "promptPrettier"
  /\ UNCHANGED <<exitVars, projectType, promptedTypeScript, useTypeScript, useHusky,
                 usePrettier, envVars, npmVars, genVars, fsVars>>

\* line 482
PromptPrettier ==
  /\ pc = "promptPrettier"
  /\ \E answer \in YesNoAnswers : usePrettier' = (ToLowerCase(answer) = "y")
  /\ pc' = "detectSvelte"
  /\ UNCHANGED <<exitVars, projectType, promptedTypeScript, useTypeScript, useHusky,
                 useStrict, envVars, npmVars, genVars, fsVars>>

\* lines 974-977
DetectSvelteTypeScript ==
  /\ pc = "detectSvelte"
  /\ IF projectType = "svelte"
     THEN \E listing \in DirListings :
            /\ dirFiles' = listing
            /\ useTypeScript' = svelteUsesTypeScript(listing)
     ELSE UNCHANGED <<dirFiles, useTypeScript>>
  /\ pc' = "createSvelteTsConfig"
  /\ UNCHANGED <<exitVars, projectType, promptedTypeScript, useHusky, useStrict, usePrettier,
                 invalidAnswers, existingFile, existingConfig, npmVars, genVars, fsVars>>

\* lines 979-981
CreateSvelteTsConfig ==
  /\ pc = "createSvelteTsConfig"
  /\ IF projectType = "svelte" /\ useTypeScript
     THEN WriteFile("tsconfig.json", svelteTsConfig)
     ELSE UNCHANGED fsVars
  /\ pc' = "checkExistingConfig"
  /\ UNCHANGED <<exitVars, optionVars, envVars, npmVars, genVars>>

\* lines 983-992; require throws when the file is no module Node can load
CheckExistingConfig ==
  /\ pc = "checkExistingConfig"
  /\ \E present \in PresentConfigFiles :
       /\ existingFile' = firstExisting(present)
       /\ IF Truthy(firstExisting(present))
          THEN \E answer \in YesNoAnswers :
                 IF ToLowerCase(answer) = "y"
                 THEN /\ pc' = "removeConflicting"
                      /\ UNCHANGED <<existingConfig, exitVars>>
                 ELSE \/ \E loaded \in ExistingConfigs :
                           /\ existingConfig' = loaded
                           /\ pc' = "removeConflicting"
                           /\ UNCHANGED exitVars
                      \/ /\ Fail("require")
                         /\ UNCHANGED existingConfig
          ELSE /\ pc' = "removeConflicting"
               /\ UNCHANGED <<existingConfig, exitVars>>
  /\ UNCHANGED <<optionVars, invalidAnswers, dirFiles, npmVars, genVars, fsVars>>

\* line 994: the loop of line 624 throws when the table has no entry for
\* projectType; a failing npm uninstall is caught and logged
RemoveConflictingDependencies ==
  /\ pc = "removeConflicting"
  /\ IF projectType \in DOMAIN conflictingDependencies
     THEN /\ uninstallLog' = uninstallLog \o conflictingDependencies[projectType]
          /\ pc' = "getProjectDependencies"
          /\ UNCHANGED exitVars
     ELSE /\ Fail("removeConflictingDependencies")
          /\ UNCHANGED uninstallLog
  /\ UNCHANGED <<optionVars, envVars, installDeps, installIdx, installRet, installLog,
                 singleFailed, genVars, fsVars>>

\* line 996
GetProjectDependencies ==
  /\ pc = "getProjectDependencies"
  /\ dependencies' = getProjectDependencies(projectType, useTypeScript, usePrettier)
  /\ pc' = "installDependencies"
  /\ UNCHANGED <<exitVars, optionVars, envVars, npmVars, packageJson, mergeBase,
                 eslintConfig, packageJsonUpdates, fsVars>>

\* line 997: the call of installDependencies and its first tier (lines 588-594)
InstallSpawn ==
  /\ pc = "installDependencies"
  /\ installDeps' = dependencies
  /\ installRet' = "readPackageJson"
  /\ \E code \in {0, 1} :
       /\ installLog' = Append(installLog, [tier |-> "spawn", deps |-> dependencies, ok |-> code = 0])
       /\ pc' = IF code = 0 THEN "readPackageJson" ELSE "installBatch"
  /\ UNCHANGED <<exitVars, optionVars, envVars, uninstallLog, installIdx, singleFailed,
                 genVars, fsVars>>

\* a variant that rethrows the error of the batch call
InstallBatch_Rethrows ==
  /\ pc = "installBatch"
  /\ installIdx' = 1
  /\ \E succeeds \in BOOLEAN :
       /\ installLog' = Append(installLog, [tier |-> "batch", deps |-> installDeps, ok |-> succeeds])
       /\ IF succeeds THEN pc' = installRet /\ UNCHANGED exitVars ELSE Fail("installDependencies")
  /\ UNCHANGED <<optionVars, envVars, uninstallLog, installDeps, installRet,
                 singleFailed, genVars, fsVars>>

\* lines 596-601
InstallBatch ==
  /\ pc = "installBatch"
  /\ installIdx' = 1
  /\ \E succeeds \in BOOLEAN :
       /\ installLog' = Append(installLog, [tier |-> "batch", deps |-> installDeps, ok |-> succeeds])
       /\ pc' = IF succeeds THEN installRet
                ELSE IF Len(installDeps) = 0 THEN installRet ELSE "installSingle"
  /\ UNCHANGED <<exitVars, optionVars, envVars, uninstallLog, installDeps, installRet,
                 singleFailed, genVars, fsVars>>

\* one turn of the loop of lines 602-609
InstallSingle ==
  /\ pc = "installSingle"
  /\ installLog' = Append(installLog, [tier |-> "single", deps |-> <<installDeps[installIdx]>>])
  /\ \E succeeds \in BOOLEAN : singleFailed' = (singleFailed \/ ~succeeds)
  /\ installIdx' = installIdx + 1
  /\ pc' = IF installIdx = Len(installDeps) THEN installRet ELSE "installSingle"
  /\ UNCHANGED <<exitVars, optionVars, envVars, uninstallLog, installDeps, installRet,
                 genVars, fsVars>>

\* line 999
ReadPackageJson ==
  /\ pc = "readPackageJson"
  /\ \/ \E content \in PackageJsons :
          /\ packageJson' = content
          /\ pc' = "generateConfig"
          /\ UNCHANGED exitVars
     \/ /\ Fail("packageJson")
        /\ UNCHANGED packageJson
  /\ UNCHANGED <<optionVars, envVars, npmVars, dependencies, mergeBase, eslintConfig,
                 packageJsonUpdates, fsVars>>

\* runs one step of generateConfig: its value, or the catch block of
\* setupProject when the function named thrower throws
ConfigStep(value, next, thrower) ==
  IF IsThrow(value)
  THEN Fail(thrower) /\ UNCHANGED eslintConfig
  ELSE eslintConfig' = value /\ pc' = next /\ UNCHANGED exitVars

\* line 1000, generateConfig up to the merge (lines 736-759)
GenerateMerge ==
  /\ pc = "generateConfig"
  /\ mergeBase' = baseEslintConfig(projectType, useStrict, packageJson)
  /\ ConfigStep(mergeStep(projectType, useStrict, packageJson, existingConfig), "configureType",
                "mergeConfigs")
  /\ UNCHANGED <<optionVars, envVars, npmVars, dependencies, packageJson,
                 packageJsonUpdates, fsVars>>

\* lines 762-781
GenerateType ==
  /\ pc = "configureType"
  /\ ConfigStep(typeStep(eslintConfig[2], projectType, useTypeScript), "configureTypeScript",
                "configureType")
  /\ UNCHANGED <<optionVars, envVars, npmVars, dependencies, packageJson, mergeBase,
                 packageJsonUpdates, fsVars>>

\* lines 783-785
GenerateTypeScript ==
  /\ pc = "configureTypeScript"
  /\ ConfigStep(typeScriptStep(eslintConfig[2], projectType, useTypeScript), "configurePrettier",
                "configureTypeScript")
  /\ UNCHANGED <<optionVars, envVars, npmVars, dependencies, packageJson, mergeBase,
                 packageJsonUpdates, fsVars>>

\* lines 787-791
GeneratePrettier ==
  /\ pc = "configurePrettier"
  /\ ConfigStep(prettierStep(eslintConfig[2], usePrettier), "writeEslintConfig",
                "configurePrettier")
  /\ UNCHANGED <<optionVars, envVars, npmVars, dependencies, packageJson, mergeBase,
                 packageJsonUpdates, fsVars>>

\* line 1001
WriteEslintConfig ==
  /\ pc = "writeEslintConfig"
  /\ WriteFile(".eslintrc.json", eslintConfig)
  /\ pc' = "createEslintIgnore"
  /\ UNCHANGED <<exitVars, optionVars, envVars, npmVars, genVars>>

\* line 1004
CreateEslintIgnore ==
  /\ pc = "createEslintIgnore"
  /\ WriteFile(".eslintignore", Strs(eslintIgnores(projectType)))
  /\ pc' = "prettierFiles"
  /\ UNCHANGED <<exitVars, optionVars, envVars, npmVars, genVars>>

\* a variant that writes the formatter files whatever usePrettier is
WritePrettierFiles_Always ==
  /\ pc = "prettierFiles"
  /\ written' = written \o <<".prettierrc", ".prettierignore">>
  /\ files' = Put(Put(files, ".prettierrc", prettierGenerateConfig(projectType)),
                  ".prettierignore", Strs(prettierIgnores))
  /\ pc' = "packageJsonUpdates"
  /\ UNCHANGED <<exitVars, optionVars, envVars, npmVars, genVars>>

\* lines 1006-1012
WritePrettierFiles ==
  /\ pc = "prettierFiles"
  /\ IF usePrettier
     THEN /\ written' = written \o <<".prettierrc", ".prettierignore">>
          /\ files' = Put(Put(files, ".prettierrc", prettierGenerateConfig(projectType)),
                          ".prettierignore", Strs(prettierIgnores))
     ELSE UNCHANGED fsVars
  /\ pc' = "packageJsonUpdates"
  /\ UNCHANGED <<exitVars, optionVars, envVars, npmVars, genVars>>

\* lines 1014-1034
BuildPackageJsonUpdates ==
  /\ pc = "packageJsonUpdates"
  /\ packageJsonUpdates' =
       prettierUpdates(svelteUpdates(baseUpdates(packageJson), projectType),
                       packageJson, usePrettier)
  /\ pc' = "husky"
  /\ UNCHANGED <<exitVars, optionVars, envVars, npmVars, dependencies, packageJson,
                 mergeBase, eslintConfig, fsVars>>

\* lines 1036-1042 up to the first tier of huskySetup's installDependencies
\* (line 681)
HuskyStart ==
  /\ pc = "husky"
  /\ IF useHusky
     THEN /\ packageJsonUpdates' = huskyUpdates(packageJsonUpdates)
          /\ installDeps' = huskyDependencies
          /\ installRet' = "huskyInstall"
          /\ \E code \in {0, 1} :
               /\ installLog' = Append(installLog,
                                       [tier |-> "spawn", deps |-> huskyDependencies, ok |-> code = 0])
               /\ pc' = IF code = 0 THEN "huskyInstall" ELSE "installBatch"
     ELSE /\ pc' = "updatePackageJson"
          /\ UNCHANGED <<packageJsonUpdates, installLog, installDeps, installRet>>
  /\ UNCHANGED <<exitVars, optionVars, envVars, uninstallLog, installIdx, singleFailed,
                 dependencies, packageJson, mergeBase, eslintConfig, fsVars>>

\* lines 682-690: npx husky install throws when it fails
HuskyInstall ==
  /\ pc = "huskyInstall"
  /\ \E succeeds \in BOOLEAN :
       IF succeeds
       THEN /\ WriteFile(".husky/pre-commit", preCommitContent)
            /\ pc' = "updatePackageJson"
            /\ UNCHANGED exitVars
       ELSE /\ Fail("husky")
            /\ UNCHANGED fsVars
  /\ UNCHANGED <<optionVars, envVars, npmVars, genVars>>

\* line 1044, updatePackageJson (lines 507-511); the manifest read again is
\* the one read at line 999
UpdatePackageJson ==
  /\ pc = "updatePackageJson"
  /\ WriteFile("package.json", O(Assign(packageJson, packageJsonUpdates)))
  /\ pc' = "done"
  /\ UNCHANGED <<exitVars, optionVars, envVars, npmVars, genVars>>

Next ==
  \/ CheckNodeVersion
  \/ CheckGitRepository
  \/ PromptProjectType
  \/ PromptTypeScript
  \/ PromptHusky
  \/ PromptStrict
  \/ PromptPrettier
  \/ DetectSvelteTypeScript
  \/ CreateSvelteTsConfig
  \/ CheckExistingConfig
  \/ RemoveConflictingDependencies
  \/ GetProjectDependencies
  \/ InstallSpawn
  \/ InstallBatch
  \/ InstallSingle
  \/ ReadPackageJson
  \/ GenerateMerge
  \/ GenerateType
  \/ GenerateTypeScript
  \/ GeneratePrettier
  \/ WriteEslintConfig
  \/ CreateEslintIgnore
  \/ WritePrettierFiles
  \/ BuildPackageJsonUpdates
  \/ HuskyStart
  \/ HuskyInstall
  \/ UpdatePackageJson

Spec == Init /\ [][Next]_vars

-----------------------------------------------------------------------------
(* mergeConfigs on its own (lines 794-806): one call on two documents *)

MergeScalars == { S("latest"), B(TRUE), N(0), Null }

MergeSequences ==
  { Strs(<<>>), Strs(<<"a", "b">>), Strs(<<"b", "c">>), Strs(<<"c", "a", "c">>) }

MergeNested ==
  { O([ ecmaVersion |-> S("latest") ]),
    O([ ecmaVersion |-> N(0), globals |-> Strs(<<"a", "b">>) ]),
    O([ globals |-> Strs(<<"b", "a", "b">>), inner |-> O([ deep |-> Strs(<<"c", "a">>) ]) ]),
    O([ inner |-> O([ deep |-> Strs(<<"a", "b">>), flag |-> B(TRUE) ]) ]) }

MergeValues == MergeScalars \cup MergeSequences \cup MergeNested

\* the documents with the fields extends and parserOptions, each one absent or
\* a scalar, a sequence of scalars or a nested document
MergeDocuments ==
  { Assign(e, o) :
      e \in {EmptyObject} \cup { [ extends |-> v ] : v \in MergeValues },
      o \in {EmptyObject} \cup { [ parserOptions |-> v ] : v \in MergeValues } }

\* nothing of setupProject has run; the two arguments are drawn
MergeInit ==
  /\ failure = "none" /\ exitCode = 0
  /\ projectType = "" /\ promptedTypeScript = FALSE /\ useTypeScript = FALSE
  /\ useHusky = FALSE /\ useStrict = FALSE /\ usePrettier = FALSE
  /\ invalidAnswers = 0 /\ dirFiles = <<>> /\ existingFile = Null
  /\ uninstallLog = <<>> /\ dependencies = <<>> /\ installDeps = <<>>
  /\ installIdx = 0 /\ installRet = "" /\ installLog = <<>> /\ singleFailed = FALSE
  /\ packageJson = EmptyObject /\ eslintConfig = Undefined
  /\ packageJsonUpdates = EmptyObject /\ written = <<>> /\ files = EmptyObject
  /\ pc = "mergeConfigs"
  /\ mergeBase \in MergeDocuments
  /\ existingConfig \in MergeDocuments

\* mergeConfigs(baseConfig, existingConfig); a TypeError leaves no result
MergeConfigsCall ==
  /\ pc = "mergeConfigs"
  /\ eslintConfig' = mergeConfigs(mergeBase, existingConfig)
  /\ pc' = IF IsThrow(mergeConfigs(mergeBase, existingConfig)) THEN "threw" ELSE "merged"
  /\ UNCHANGED <<exitVars, optionVars, envVars, npmVars, dependencies, packageJson, mergeBase,
                 packageJsonUpdates, fsVars>>

MergeNext == MergeConfigsCall

MergeSpec == MergeInit /\ [][MergeNext]_vars

-----------------------------------------------------------------------------
(* Properties *)

Range(q) == { q[i] : i \in 1..Len(q) }

\* getProjectDependencies has returned (its result always holds eslint)
DependenciesComputed == dependencies # <<>>

\* C1: for every project type and every useTypeScript, the list that
\* getProjectDependencies returned holds no specifier containing 'prettier'
\* when usePrettier is false, and holds the package prettier itself when
\* usePrettier is true.
C1_PrettierPackagesFollowFlag ==
  DependenciesComputed =>
    IF usePrettier
    THEN "prettier@^3.2.5" \in Range(dependencies)
    ELSE \A i \in 1..Len(dependencies) : ~Includes(dependencies[i], "prettier")

C1_Witness ==
  /\ pc = "installDependencies"
  /\ projectType = "svelte"
  /\ useTypeScript
  /\ ~usePrettier
  /\ Len(dependencies) = 6

\* the positions of full whose specifier does not contain 'prettier'
KeptPositions(full) == { i \in 1..Len(full) : ~Includes(full[i], "prettier") }

\* q holds exactly the elements of full at the positions kept, in their order
IsSelection(q, full, kept) ==
  /\ Len(q) = Cardinality(kept)
  /\ \A j \in 1..Len(q) :
       \E i \in kept : Cardinality({ k \in kept : k < i }) = j - 1 /\ q[j] = full[i]

\* C10: the list is the common list, then the type-specific list, then the two
\* @typescript-eslint packages exactly when useTypeScript is true and the type is
\* not nextjs; with usePrettier false the list is that list without its
\* 'prettier' specifiers, every other specifier kept at its relative position.
C10_InsertionOrderKept ==
  DependenciesComputed =>
    LET full == commonDependencies \o typeSpecificDependencies[projectType]
                \o (IF useTypeScript /\ projectType # "nextjs"
                    THEN typescriptDependencies ELSE <<>>)
    IN  IF usePrettier
        THEN dependencies = full
        ELSE IsSelection(dependencies, full, KeptPositions(full))

C10_Witness ==
  /\ pc = "installDependencies"
  /\ projectType = "nextjs"
  /\ useTypeScript
  /\ ~usePrettier
  /\ dependencies = <<"eslint@^8.56.0", "eslint-config-next@latest">>

\* sequence, nested document or scalar
Shape(v) == IF IsArray(v) THEN "sequence" ELSE IF IsObject(v) THEN "document" ELSE "scalar"

\* the keys at which base and incoming hold values of different shapes
MismatchedKeys(base, incoming) ==
  { k \in DOMAIN base \cap DOMAIN incoming : Shape(base[k]) # Shape(incoming[k]) }

\* the user declined to overwrite and the existing configuration was loaded
ExistingLoaded == existingConfig # EmptyObject

\* C2 (as claimed): merging the existing configuration into the fresh base never
\* raises an error, and at every key where the two hold values of different
\* shapes, at the top level and under parserOptions, the merged document holds
\* the incoming value.
C2_MismatchOverwrites ==
  /\ failure # "mergeConfigs"
  /\ pc = "configureType" =>
       LET base == baseEslintConfig(projectType, useStrict, packageJson)
           merged == eslintConfig[2]
       IN  /\ \A k \in MismatchedKeys(base, existingConfig) : merged[k] = existingConfig[k]
           /\ ( /\ "parserOptions" \in DOMAIN existingConfig
                /\ IsObject(existingConfig["parserOptions"]) )
              => \A k \in MismatchedKeys(base["parserOptions"][2],
                                         existingConfig["parserOptions"][2]) :
                   merged["parserOptions"][2][k] = existingConfig["parserOptions"][2][k]

\* the 'extends' sequence of a document, empty when it has none
ExtendsOf(doc) == IF "extends" \in DOMAIN doc THEN doc["extends"][2] ELSE <<>>

NoDuplicates(q) == \A i, j \in 1..Len(q) : q[i] = q[j] => i = j

\* C3 (as claimed): when the existing configuration was found and kept, the
\* 'extends' of the generated document holds every element of the existing
\* file's 'extends', every element of the 'extends' generated for the same
\* options with no existing configuration, and no element twice.
C3_ExtendsIsDeduplicatedSuperset ==
  (pc = "writeEslintConfig" /\ ExistingLoaded) =>
    LET final == ExtendsOf(eslintConfig[2])
        fresh == generateConfig(projectType, useTypeScript, useStrict, usePrettier,
                                packageJson, EmptyObject)
    IN  /\ Range(ExtendsOf(existingConfig)) \subseteq Range(final)
        /\ Range(ExtendsOf(fresh[2])) \subseteq Range(final)
        /\ NoDuplicates(final)

\* nothing was written and npm was not run
NothingMutated == written = <<>> /\ installLog = <<>> /\ uninstallLog = <<>>

\* C4 (as claimed): when a missing .git directory, an unsupported Node version
\* or an unreadable package.json ends the run, no file has been written and no
\* npm uninstall or install has been run.
C4_PreconditionFailureBeforeMutation ==
  failure \in {"nodeVersion", "gitRepository", "packageJson"} =>
    exitCode # 0 /\ NothingMutated

\* C6 (as claimed): the projectType that getProjectOptions returned is a member
\* of PROJECT_TYPES, and the run never ends in the error of a lookup by a
\* projectType outside the set.
C6_ProjectTypeEnumerated ==
  /\ projectType # "" => ArrIncludes(PROJECT_TYPES, projectType)
  /\ failure # "removeConflictingDependencies"

InstallRunning == pc \in {"installBatch", "installSingle"}

\* the batch tier follows a spawn of the same list that exited non-zero
BatchOnlyAfterFailedSpawn ==
  \A i \in 1..Len(installLog) :
    installLog[i].tier = "batch" =>
      /\ i > 1
      /\ installLog[i - 1].tier = "spawn"
      /\ ~installLog[i - 1].ok
      /\ installLog[i - 1].deps = installLog[i].deps

\* a package is installed alone only in the loop that follows a failed batch
\* call, at the position the package has in the list
SingleOnlyAfterFailedBatch ==
  \A i \in 1..Len(installLog) :
    installLog[i].tier = "single" =>
      \E b \in 1..(i - 1) :
        /\ installLog[b].tier = "batch"
        /\ ~installLog[b].ok
        /\ i - b <= Len(installLog[b].deps)
        /\ installLog[i].deps = <<installLog[b].deps[i - b]>>
        /\ \A k \in (b + 1)..(i - 1) : installLog[k].tier = "single"

\* after a failed batch call the loop tries every package of the list, also
\* when an earlier one failed; only the running loop may be unfinished
EveryPackageTried ==
  \A b \in 1..Len(installLog) :
    (installLog[b].tier = "batch" /\ ~installLog[b].ok) =>
      LET n == Len(installLog[b].deps)
          running == pc = "installSingle" /\ \A k \in (b + 1)..Len(installLog) :
                                               installLog[k].tier = "single"
      IN  IF running
          THEN Len(installLog) - b = installIdx - 1
          ELSE /\ Len(installLog) >= b + n
               /\ \A k \in 1..n :
                    installLog[b + k] = [tier |-> "single", deps |-> <<installLog[b].deps[k]>>]

\* the configuration written is the one generateConfig computes from the
\* options, whatever npm did
WrittenConfigIgnoresInstall ==
  ".eslintrc.json" \in DOMAIN files =>
    files[".eslintrc.json"] = generateConfig(projectType, useTypeScript, useStrict, usePrettier,
                                             packageJson, existingConfig)

\* C5: installDependencies falls through its three tiers in order: the batch
\* call runs only after the spawned install exited non-zero, the per-package
\* loop only after the batch call failed, and the loop tries every package once
\* in list order even when earlier ones fail; no outcome of a tier ends the run:
\* the call returns to its caller, for setupProject at the read of package.json
\* that starts the generation of the lint configuration, and the configuration
\* written does not depend on what npm did.
C5_ThreeTierFallback ==
  /\ [](BatchOnlyAfterFailedSpawn /\ SingleOnlyAfterFailedBatch /\ EveryPackageTried
         /\ WrittenConfigIgnoresInstall)
  /\ [][ /\ (pc = "installDependencies" \/ InstallRunning) =>
            /\ failure' = "none"
            /\ pc' \in {"installBatch", "installSingle", installRet'}
         /\ pc = "installDependencies" => installRet' = "readPackageJson" ]_vars

C5_Witness ==
  /\ pc = "done"
  /\ ~useHusky
  /\ singleFailed
  /\ Len(installLog) = 2 + Len(dependencies)
  /\ installLog[Len(installLog)] =
       [tier |-> "single", deps |-> <<dependencies[Len(dependencies)]>>]
  /\ ".eslintrc.json" \in Range(written)

\* isSvelteUsingTypeScript and the override of line 975 have run
Detected ==
  /\ pc \notin {"checkNodeVersion", "checkGitRepository", "promptProjectType",
                "promptTypeScript", "promptHusky", "promptStrict", "promptPrettier",
                "detectSvelte"}
  /\ failure \notin {"nodeVersion", "gitRepository"}

\* what the directory listing says, read off dirFiles
ListingHasTypeScript ==
  /\ dirFiles # Throw
  /\ \E i \in 1..Len(dirFiles) :
       \/ dirFiles[i] = "tsconfig.json"
       \/ EndsWith(dirFiles[i], ".ts")
       \/ EndsWith(dirFiles[i], ".svelte")

\* C7: for svelte the useTypeScript that the later steps of setupProject use is
\* what the directory listing says and not the prompted answer: true when the
\* listing holds tsconfig.json or a name ending in .ts or .svelte (tsconfig.json
\* is then written), false otherwise and when the directory cannot be listed;
\* for every other type it is the prompted answer. The dependency list and the
\* TypeScript step of generateConfig follow that value.
C7_SvelteTypeScriptDetected ==
  Detected =>
    /\ useTypeScript = IF projectType = "svelte" THEN ListingHasTypeScript
                       ELSE promptedTypeScript
    /\ pc # "createSvelteTsConfig" =>
         ("tsconfig.json" \in Range(written)) = (projectType = "svelte" /\ ListingHasTypeScript)
    /\ (DependenciesComputed /\ projectType = "svelte") =>
         ("@typescript-eslint/parser@^7.1.0" \in Range(dependencies)) = ListingHasTypeScript
    /\ (pc = "configurePrettier" /\ projectType = "svelte") =>
         (Get(eslintConfig[2], "parser") = S("@typescript-eslint/parser")) = ListingHasTypeScript

C7_Witness ==
  /\ pc = "done"
  /\ projectType = "svelte"
  /\ ~promptedTypeScript
  /\ dirFiles = <<"package.json", "App.svelte">>
  /\ useTypeScript
  /\ "tsconfig.json" \in Range(written)

\* the scripts of a manifest, empty when it has none
ScriptsOf(doc) == IF "scripts" \in DOMAIN doc THEN doc["scripts"][2] ELSE EmptyObject

\* C8: .prettierrc and .prettierignore are never written when usePrettier is
\* false, and a completed run has written both when it is true, for every
\* project type; a completed angular run with usePrettier false adds no 'format'
\* script: the manifest written has one only if the manifest read had it, with
\* the same command.
C8_FormatterFilesFollowFlag ==
  /\ ~usePrettier => {".prettierrc", ".prettierignore"} \cap Range(written) = {}
  /\ pc = "done" =>
       /\ (".prettierrc" \in Range(written)) = usePrettier
       /\ (".prettierignore" \in Range(written)) = usePrettier
  /\ (pc = "done" /\ projectType = "angular" /\ ~usePrettier) =>
       LET after == ScriptsOf(files["package.json"][2])
           before == ScriptsOf(packageJson)
       IN  /\ "format" \in DOMAIN after => "format" \in DOMAIN before
           /\ "format" \in DOMAIN before => after["format"] = before["format"]

C8_Witness ==
  /\ pc = "done"
  /\ projectType = "angular"
  /\ ~usePrettier
  /\ "format" \notin DOMAIN ScriptsOf(files["package.json"][2])
  /\ ".eslintignore" \in Range(written)

\* the scenario of C9
NodejsScenario ==
  /\ projectType = "nodejs"
  /\ ~useTypeScript
  /\ useStrict
  /\ usePrettier
  /\ ~useHusky
  /\ existingFile = Null

\* C9: in a completed run for nodejs with useTypeScript false, useStrict true,
\* usePrettier true, useHusky false and no existing configuration, the
\* dependency list is the four common packages followed by eslint-plugin-node,
\* with no @typescript-eslint package; the rules written have 'no-console',
\* 'no-debugger' and 'no-unused-vars' at 'error'; .eslintignore holds exactly
\* the common list.
C9_NodejsScenario ==
  (pc = "done" /\ NodejsScenario) =>
    /\ dependencies = << "eslint@^8.56.0", "prettier@^3.2.5", "eslint-config-prettier@^9.1.0",
                         "eslint-plugin-prettier@^5.1.3", "eslint-plugin-node@^11.1.0" >>
    /\ \A i \in 1..Len(dependencies) : ~Includes(dependencies[i], "@typescript-eslint")
    /\ LET rules == files[".eslintrc.json"][2]["rules"][2]
       IN  /\ rules["no-console"] = S("error")
           /\ rules["no-debugger"] = S("error")
           /\ rules["no-unused-vars"] = S("error")
    /\ files[".eslintignore"] =
         Strs(<<"node_modules", "dist", "build", "coverage", "*.min.js", "*.d.ts">>)

C9_Witness ==
  /\ pc = "done"
  /\ NodejsScenario
  /\ ".eslintignore" \in Range(written)
  /\ ".eslintrc.json" \in Range(written)

\* generateConfig has returned its document to setupProject
ConfigGenerated == pc = "writeEslintConfig"

\* the language-variant step of lines 783-785 ran
TypeScriptStepRan == useTypeScript /\ projectType # "nextjs"

\* C11: the document generateConfig returns has the fields root, env,
\* parserOptions and rules, for every project type, flag combination and
\* existing configuration; with no existing configuration it has 'settings'
\* only for react, 'overrides' only for svelte, 'parser' only for svelte, vue
\* or when the TypeScript step ran, and no 'plugins' for nextjs when the
\* TypeScript step did not run.
C11_RequiredAndOptionalFields ==
  ConfigGenerated =>
    LET doc == eslintConfig[2]
    IN  /\ {"root", "env", "parserOptions", "rules"} \subseteq DOMAIN doc
        /\ existingConfig = EmptyObject =>
             /\ "settings" \in DOMAIN doc => projectType = "react"
             /\ "overrides" \in DOMAIN doc => projectType = "svelte"
             /\ "parser" \in DOMAIN doc =>
                  (projectType \in {"svelte", "vue"} \/ TypeScriptStepRan)
             /\ (projectType = "nextjs" /\ ~TypeScriptStepRan) => "plugins" \notin DOMAIN doc

C11_Witness ==
  /\ ConfigGenerated
  /\ projectType = "nextjs"
  /\ useTypeScript
  /\ existingConfig = EmptyObject
  /\ DOMAIN eslintConfig[2] = {"root", "env", "parserOptions", "rules", "extends"}

\* the merge engine has returned a document
Merged == pc = "merged"

RECURSIVE SameUpToOrder(_, _)
\* two values are equal, two sequences being compared as sets, at any depth
SameUpToOrder(a, b) ==
  IF IsArray(a) /\ IsArray(b) THEN Range(a[2]) = Range(b[2])
  ELSE IF IsObject(a) /\ IsObject(b)
  THEN /\ DOMAIN a[2] = DOMAIN b[2]
       /\ \A k \in DOMAIN a[2] : SameUpToOrder(a[2][k], b[2][k])
  ELSE a = b

\* C12: mergeConfigs(X, X) is X for every document X built from scalars,
\* sequences of scalars and nested documents, two sequences being compared as
\* sets: the call throws nothing, adds no element, drops none and changes no
\* scalar, at any depth.
C12_MergeWithItself ==
  (pc # "mergeConfigs" /\ mergeBase = existingConfig) =>
    Merged /\ SameUpToOrder(eslintConfig, O(mergeBase))

C12_Witness ==
  /\ Merged
  /\ mergeBase = existingConfig
  /\ mergeBase = [ extends |-> Strs(<<"c", "a", "c">>),
                   parserOptions |-> O([ globals |-> Strs(<<"b", "a", "b">>),
                                         inner |-> O([ deep |-> Strs(<<"c", "a">>) ]) ]) ]
  /\ eslintConfig[2]["extends"] = Strs(<<"c", "a">>)

\* the base document has been built (lines 736-756)
BaseBuilt == mergeBase # EmptyObject

\* the rule map of a document, empty when it has none
RulesOf(doc) ==
  IF "rules" \in DOMAIN doc /\ IsObject(doc["rules"]) THEN doc["rules"][2] ELSE EmptyObject

\* the position of the first occurrence of x in q
FirstPos(q, x) == CHOOSE i \in 1..Len(q) : q[i] = x /\ \A j \in 1..(i - 1) : q[j] # x

\* m holds every element of b and of i once, b's elements in b's order and
\* then the elements only i has in i's order
UnionInOrder(b, i, m) ==
  /\ NoDuplicates(m)
  /\ Range(m) = Range(b) \cup Range(i)
  /\ \A p, q \in 1..Len(m) : p < q => FirstPos(b \o i, m[p]) < FirstPos(b \o i, m[q])

RECURSIVE SequencesMerged(_, _, _)
\* what C17 says of the document merged, at every depth
SequencesMerged(base, incoming, merged) ==
  /\ \A k \in DOMAIN base \cap DOMAIN incoming :
       /\ (IsArray(base[k]) /\ IsArray(incoming[k])) =>
            IsArray(merged[k]) /\ UnionInOrder(base[k][2], incoming[k][2], merged[k][2])
       /\ (IsObject(base[k]) /\ IsObject(incoming[k])) =>
            IsObject(merged[k]) /\ SequencesMerged(base[k][2], incoming[k][2], merged[k][2])
  /\ \A k \in DOMAIN base \ DOMAIN incoming : k \in DOMAIN merged /\ merged[k] = base[k]

\* C17: at every key where base and incoming both hold sequences the document
\* mergeConfigs returns holds the elements of the base sequence in base order,
\* then the incoming elements not yet present in incoming order, none twice
\* and none lost; every key only base has keeps its base value.
C17_SequencesUnitedInOrder ==
  Merged => SequencesMerged(mergeBase, existingConfig, eslintConfig[2])

C17_Witness ==
  /\ Merged
  /\ mergeBase = [ extends |-> Strs(<<"c", "a", "c">>),
                   parserOptions |-> O([ ecmaVersion |-> N(0), globals |-> Strs(<<"a", "b">>) ]) ]
  /\ existingConfig = [ extends |-> Strs(<<"b", "c">>) ]
  /\ eslintConfig[2]["extends"] = Strs(<<"c", "a", "b">>)
  /\ eslintConfig[2]["parserOptions"] = mergeBase["parserOptions"]

\* C13 (as claimed): in the base document, before the merge and the type step,
\* useStrict true sets 'no-console', 'no-debugger' and 'no-unused-vars' to
\* 'error'; useStrict false sets 'no-console' to 'warn' and sets neither
\* 'no-debugger' nor 'no-unused-vars' to 'error'.
C13_StrictnessAtBase ==
  BaseBuilt =>
    LET rules == RulesOf(mergeBase)
    IN  IF useStrict
        THEN /\ Get(rules, "no-console") = S("error")
             /\ Get(rules, "no-debugger") = S("error")
             /\ Get(rules, "no-unused-vars") = S("error")
        ELSE /\ Get(rules, "no-console") = S("warn")
             /\ Get(rules, "no-debugger") # S("error")
             /\ Get(rules, "no-unused-vars") # S("error")

\* a document on which a step writes nothing but its own entries
BlankConfig == [ rules |-> O(EmptyObject), parserOptions |-> O(EmptyObject) ]

\* the rules each step writes for the options of the run (none when the step
\* does not run)
TypeRules == RulesOf(typeStep(BlankConfig, projectType, useTypeScript)[2])
TypeScriptRules == RulesOf(typeScriptStep(BlankConfig, projectType, useTypeScript)[2])
PrettierRules == RulesOf(prettierStep(BlankConfig, usePrettier)[2])

\* every rule key with the value of the latest step that wrote it, over the
\* order base, existing configuration, type, TypeScript, Prettier
LastWriterRules ==
  Assign(Assign(Assign(Assign(RulesOf(mergeBase), RulesOf(existingConfig)),
                       TypeRules), TypeScriptRules), PrettierRules)

\* C14 (as claimed): the rules of the final document follow last-writer-wins
\* over the order base, existing configuration, type step, TypeScript step,
\* Prettier step: every rule key has the value of the latest step that wrote
\* it; so the existing configuration's 'no-console' replaces the strictness
\* value, and for svelte 'no-unused-vars' is 'off' even with useStrict.
C14_LastWriterWins ==
  ConfigGenerated =>
    /\ RulesOf(eslintConfig[2]) = LastWriterRules
    /\ "no-console" \in DOMAIN RulesOf(existingConfig) =>
         RulesOf(eslintConfig[2])["no-console"] = RulesOf(existingConfig)["no-console"]
    /\ projectType = "svelte" => RulesOf(eslintConfig[2])["no-unused-vars"] = S("off")

TypeScriptEntry == S("plugin:@typescript-eslint/recommended")
PrettierEntry == S("plugin:prettier/recommended")

\* the position of the last occurrence of x in q (0 when it has none)
LastPos(q, x) ==
  IF \E i \in 1..Len(q) : q[i] = x
  THEN CHOOSE i \in 1..Len(q) : q[i] = x /\ \A j \in (i + 1)..Len(q) : q[j] # x
  ELSE 0

\* the entries the type step adds to 'extends' for the options of the run
TypeEntries == Range(ExtendsOf(typeStep(BlankConfig, projectType, useTypeScript)[2]))

\* C15: the steps of generateConfig run in the order base, merge, type step,
\* TypeScript step, Prettier step, and the TypeScript step runs exactly when
\* useTypeScript is true and the type is not nextjs: in the final 'extends'
\* the entry 'plugin:@typescript-eslint/recommended' is present exactly then
\* (the existing configuration not holding it) and comes after every entry of
\* the type step, and 'plugin:prettier/recommended' is the last element whenever
\* usePrettier is true, for every project type and existing configuration.
C15_StepOrderInExtends ==
  ConfigGenerated =>
    LET ext == ExtendsOf(eslintConfig[2])
    IN  /\ TypeScriptEntry \notin Range(ExtendsOf(existingConfig)) =>
             (TypeScriptEntry \in Range(ext)) = TypeScriptStepRan
        /\ TypeScriptStepRan =>
             /\ LastPos(ext, TypeScriptEntry) > 0
             /\ \A t \in TypeEntries : LastPos(ext, t) < LastPos(ext, TypeScriptEntry)
             /\ LastPos(ext, TypeScriptEntry) >= Len(ext) - 1
        /\ usePrettier => Len(ext) > 0 /\ ext[Len(ext)] = PrettierEntry
        /\ ~usePrettier => PrettierEntry \notin Range(ext)

C15_Witness ==
  /\ ConfigGenerated
  /\ projectType = "react"
  /\ useTypeScript
  /\ usePrettier
  /\ ExistingLoaded
  /\ LET ext == ExtendsOf(eslintConfig[2])
     IN  /\ Len(ext) = 9
         /\ ext[1] = S("airbnb")
         /\ ext[8] = TypeScriptEntry
         /\ ext[9] = PrettierEntry

\* C16 (as claimed): for svelte the final document has one 'overrides' entry,
\* for files '*.svelte', whose parser is 'svelte-eslint-parser' and whose
\* parserOptions.parser is '@typescript-eslint/parser' when useTypeScript is
\* true and 'espree' when it is false; with useTypeScript true the rule
\* '@typescript-eslint/no-unused-vars' is an error-level entry and
\* parserOptions has project and extraFileExtensions.
C16_SvelteOverrides ==
  (ConfigGenerated /\ projectType = "svelte") =>
    LET doc == eslintConfig[2]
        overrides == Get(doc, "overrides")
    IN  /\ IsArray(overrides) /\ Len(overrides[2]) = 1
        /\ LET entry == overrides[2][1][2]
           IN  /\ entry["files"] = Strs(<<"*.svelte">>)
               /\ entry["parser"] = S("svelte-eslint-parser")
               /\ entry["parserOptions"][2]["parser"] =
                    IF useTypeScript THEN S("@typescript-eslint/parser") ELSE S("espree")
        /\ useTypeScript =>
             /\ LET rule == Get(RulesOf(doc), "@typescript-eslint/no-unused-vars")
                IN  IsArray(rule) /\ rule[2][1] = S("error")
             /\ {"project", "extraFileExtensions"} \subseteq DOMAIN doc["parserOptions"][2]

\* the run has written the manifest
ManifestWritten == pc = "done"

\* C18 (as claimed): every script the manifest had before the run has the same
\* value in the manifest written, for every project type and flag
\* combination, and every top-level field other than 'scripts' and
\* 'lint-staged' is unchanged.
C18_UserScriptsKept ==
  ManifestWritten =>
    LET before == packageJson
        after == files["package.json"][2]
    IN  /\ \A name \in DOMAIN ScriptsOf(before) :
             Get(ScriptsOf(after), name) = ScriptsOf(before)[name]
        /\ \A field \in (DOMAIN before \cup DOMAIN after) \ {"scripts", "lint-staged"} :
             Get(after, field) = Get(before, field)

\* a string value that contains 'prettier'
MentionsPrettier(v) == Tag(v) = "str" /\ Includes(v[2], "prettier")

\* the commands of the 'lint-staged' field of the updates
LintStagedCommands(updates) ==
  IF "lint-staged" \in DOMAIN updates
  THEN UNION { Range(updates["lint-staged"][2][glob][2]) : glob \in DOMAIN updates["lint-staged"][2] }
  ELSE {}

\* C19 (as claimed): with usePrettier false no script the run adds or changes
\* and no lint-staged command of packageJsonUpdates contains 'prettier', for
\* every project type and useHusky; and the 'extends' and 'rules' of the lint
\* configuration have no 'prettier' entry the existing configuration did not
\* have.
C19_NoFormatterWithoutFlag ==
  ~usePrettier =>
    /\ \A name \in DOMAIN ScriptsOf(packageJsonUpdates) :
         LET value == ScriptsOf(packageJsonUpdates)[name]
         IN  MentionsPrettier(value) => Get(ScriptsOf(packageJson), name) = value
    /\ \A command \in LintStagedCommands(packageJsonUpdates) : ~MentionsPrettier(command)
    /\ ConfigGenerated =>
         /\ \A entry \in Range(ExtendsOf(eslintConfig[2])) \ Range(ExtendsOf(existingConfig)) :
              ~MentionsPrettier(entry)
         /\ \A rule \in DOMAIN RulesOf(eslintConfig[2]) \ DOMAIN RulesOf(existingConfig) :
              ~Includes(rule, "prettier")

====
